---- MODULE Spec2Model ----
(***************************************************************************)
(* Quad-mesh function-space topology of warp.fem                           *)
(* (warp/fem/space/quadmesh_function_space.py): the per-edge builder of    *)
(* quad_edge_indices, the cached TopologyArg, and the element_node_index   *)
(* functions of the bipolynomial and serendipity variants.                 *)
(*                                                                         *)
(* All arrays are 0-based functions, as in the source.                     *)
(***************************************************************************)
EXTENDS Integers, Sequences, FiniteSets, TLC

VARIABLES
    mesh,               \* the Quadmesh2D handed to the constructor (read-only input)
    requested,          \* the shape argument of the construction call, NoShape before it
    pc,                 \* host position: "idle", "constructed", "error"
    error,              \* "none" or the exception raised by the construction call
    shape,              \* self._shape, NoShape before __init__ stores it
    allocated,          \* self._quad_edge_indices has been allocated (wp.empty)
    launched,           \* the builder kernel has been launched
    quad_edge_indices,  \* self._quad_edge_indices, cell_count x 4
    writers,            \* per (quad, slot): the edges whose unit of work wrote it, in order
    tpc,                \* per edge: position of its unit of work in the kernel
    element_node_index, \* self.element_node_index: the key of the specialized function, or NoFunc
    func_cache,         \* cache._func_cache: the keys already specialized
    specializations,    \* per key: times a function has been specialized for it
    arg_cache,          \* self._topo_arg_value_cache: device -> struct or NoArg
    builds,             \* per device: times the body of topo_arg_value has run
    ret,                \* the struct returned by the last topo_arg_value call, or NoArg
    result,             \* the last element_node_index / node_count evaluation, or NoResult
    thr                 \* per host thread: its position inside a cache lookup

vars == <<mesh, requested, pc, error, shape, allocated, launched, quad_edge_indices,
          writers, tpc, element_node_index, func_cache, specializations, arg_cache,
          builds, ret, result, thr>>

\* the variables the builder kernel leaves alone
hostVars == <<mesh, requested, pc, error, shape, allocated, launched, element_node_index,
              func_cache, specializations, arg_cache, builds, ret, result, thr>>
\* the variables a call on a constructed topology leaves alone
topologyVars == <<mesh, requested, pc, error, shape, allocated, launched,
                  quad_edge_indices, writers, tpc>>

----------------------------------------------------------------------------
(* Bounds *)

\* largest polynomial order of a shape
MaxOrder == 3
\* cap on the build counter of one device (reached only if the cache is bypassed)
MaxBuilds == 2
\* host threads that use the caches concurrently
NumThreads == 2

----------------------------------------------------------------------------
(* Mesh adjacency input: the 2x1 quad strip, in every local numbering        *)
(*                                                                           *)
(*     3 --- 4 --- 5                                                         *)
(*     |  0  |  1  |          V = 6, E = 7, C = 2, edge 5 = {1,4} is shared  *)
(*     0 --- 1 --- 2                                                         *)

Range(f) == {f[x] : x \in DOMAIN f}

BaseQuadVertices == <<  <<0, 1, 4, 3>>,  <<1, 2, 5, 4>>  >>
BaseEdgeVertices == << <<0, 1>>, <<1, 2>>, <<3, 4>>, <<4, 5>>, <<0, 3>>, <<1, 4>>, <<2, 5>> >>
BaseEdgeQuads    == << <<0, 0>>, <<1, 1>>, <<0, 0>>, <<1, 1>>, <<0, 0>>, <<0, 1>>, <<1, 1>> >>

\* which edges list their vertex pair reversed, for each canonical-orientation pattern
FlipPatterns == {"none", "all", "odd"}
Flipped(e, pattern) == pattern = "all" \/ (pattern = "odd" /\ e % 2 = 1)

\* the cyclic local order of a quad: started at corner rot, walked backwards if refl
LocalOrder(base, rot, refl) ==
    [k \in 0..3 |-> base[(IF refl THEN (rot + 4 - k) % 4 ELSE (rot + k) % 4) + 1]]

\* rot: the corner each quad starts its local order at; refl: quad 1 walks its
\* corners in the opposite sense to quad 0 (both then traverse the shared edge in
\* the same direction); pattern: the canonical edge orientations; swap: the
\* shared edge lists its two quads as (1, 0) instead of (0, 1)
StripMesh(rot, refl, pattern, swap) ==
    [ quad_vertex_indices |->
          [q \in 0..1 |-> LocalOrder(BaseQuadVertices[q + 1], rot[q], q = 1 /\ refl)],
      edge_vertex_indices |->
          [e \in 0..6 |-> [i \in 0..1 |->
              BaseEdgeVertices[e + 1][(IF Flipped(e, pattern) THEN 1 - i ELSE i) + 1]]],
      edge_quad_indices |->
          [e \in 0..6 |-> [i \in 0..1 |->
              BaseEdgeQuads[e + 1][(IF swap THEN 1 - i ELSE i) + 1]]],
      vertex_count |-> Cardinality(UNION {{p[1], p[2]} : p \in Range(BaseEdgeVertices)}),
      side_count   |-> Len(BaseEdgeVertices),
      cell_count   |-> Len(BaseQuadVertices) ]

Meshes ==
    { StripMesh(rot, refl, pattern, swap) :
        rot \in [0..1 -> 0..3], refl \in BOOLEAN,
        pattern \in FlipPatterns, swap \in BOOLEAN }

Quads == 0..(mesh.cell_count - 1)
Edges == 0..(mesh.side_count - 1)
Slots == 0..3

----------------------------------------------------------------------------
(* Shapes *)

Families == {"LOBATTO_GAUSS_LEGENDRE", "GAUSS_LEGENDRE"}
Kinds == {"bipolynomial", "serendipity", "other"}
Shapes == [kind : Kinds, family : Families, ORDER : 1..MaxOrder]

NoShape == [kind |-> "none"]
NoFunc == "none"
NoArg == [device |-> "none"]
NoResult == [op |-> "none"]

\* warp.fem.polynomial.is_closed: the family has nodes on the element boundary
is_closed(family) == family # "GAUSS_LEGENDRE"

\* ShapeFunction.NODES_PER_ELEMENT
NODES_PER_ELEMENT(s) ==
    IF s.kind = "bipolynomial" THEN (s.ORDER + 1) * (s.ORDER + 1) ELSE 4 * s.ORDER

----------------------------------------------------------------------------
(* Topology Builder *)

\* Quadmesh2DSpaceTopology._find_edge_index_in_quad
MatchesSlot(edge_vtx, quad_vtx, k) ==
    \/ (edge_vtx[0] = quad_vtx[k] /\ edge_vtx[1] = quad_vtx[k + 1])
    \/ (edge_vtx[1] = quad_vtx[k] /\ edge_vtx[0] = quad_vtx[k + 1])

\* _find_edge_index_in_quad that compares the edge in its listed orientation only
_find_edge_index_in_quad_one_way(edge_vtx, quad_vtx) ==
    IF edge_vtx[0] = quad_vtx[0] /\ edge_vtx[1] = quad_vtx[1] THEN 0
    ELSE IF edge_vtx[0] = quad_vtx[1] /\ edge_vtx[1] = quad_vtx[2] THEN 1
    ELSE IF edge_vtx[0] = quad_vtx[2] /\ edge_vtx[1] = quad_vtx[3] THEN 2
    ELSE 3

_find_edge_index_in_quad(edge_vtx, quad_vtx) ==
    IF MatchesSlot(edge_vtx, quad_vtx, 0) THEN 0
    ELSE IF MatchesSlot(edge_vtx, quad_vtx, 1) THEN 1
    ELSE IF MatchesSlot(edge_vtx, quad_vtx, 2) THEN 2
    ELSE 3

\* one store quad_edge_indices[q, slot] = e of the unit of work of edge e
Store(q, slot, e) ==
    /\ quad_edge_indices' = [quad_edge_indices EXCEPT ![q][slot] = e]
    /\ writers' = [writers EXCEPT ![q][slot] = Append(@, e)]

\* the kernel without its test q1 != q0: a boundary edge stores twice
KernelFirstQuad_no_boundary_test(e) ==
    /\ launched
    /\ tpc[e] = "start"
    /\ LET edge_vtx == mesh.edge_vertex_indices[e]
           q0 == mesh.edge_quad_indices[e][0]
           q0_edge == _find_edge_index_in_quad(edge_vtx, mesh.quad_vertex_indices[q0])
       IN Store(q0, q0_edge, e)
    /\ tpc' = [tpc EXCEPT ![e] = "second"]
    /\ UNCHANGED hostVars

\* _compute_quad_edge_indices_kernel, thread e, up to and including the store for q0;
\* the thread is finished here when q1 = q0 (boundary edge)
KernelFirstQuad(e) ==
    /\ launched
    /\ tpc[e] = "start"
    /\ LET edge_vtx == mesh.edge_vertex_indices[e]
           edge_quads == mesh.edge_quad_indices[e]
           q0 == edge_quads[0]
           q0_edge == _find_edge_index_in_quad(edge_vtx, mesh.quad_vertex_indices[q0])
       IN /\ Store(q0, q0_edge, e)
          /\ tpc' = [tpc EXCEPT ![e] = IF edge_quads[1] # q0 THEN "second" ELSE "done"]
    /\ UNCHANGED hostVars

\* _compute_quad_edge_indices_kernel, thread e, the branch q1 != q0
KernelSecondQuad(e) ==
    /\ launched
    /\ tpc[e] = "second"
    /\ LET edge_vtx == mesh.edge_vertex_indices[e]
           q1 == mesh.edge_quad_indices[e][1]
           t1_edge == _find_edge_index_in_quad(edge_vtx, mesh.quad_vertex_indices[q1])
       IN Store(q1, t1_edge, e)
    /\ tpc' = [tpc EXCEPT ![e] = "done"]
    /\ UNCHANGED hostVars

\* every unit of work of the launch has finished
KernelDone == launched /\ \A e \in Edges : tpc[e] = "done"

\* the whole unit of work of edge e applied to a table
KernelThread(m, table, e) ==
    LET edge_vtx == m.edge_vertex_indices[e]
        q0 == m.edge_quad_indices[e][0]
        q1 == m.edge_quad_indices[e][1]
        q0_edge == _find_edge_index_in_quad(edge_vtx, m.quad_vertex_indices[q0])
        t1_edge == _find_edge_index_in_quad(edge_vtx, m.quad_vertex_indices[q1])
        first == [table EXCEPT ![q0][q0_edge] = e]
    IN IF q1 # q0 THEN [first EXCEPT ![q1][t1_edge] = e] ELSE first

\* wp.launch on a host device: the units of work run one after the other, e = 0, 1, ...
RECURSIVE LaunchInOrder(_, _, _)
LaunchInOrder(m, table, e) ==
    IF e = m.side_count THEN table
    ELSE LaunchInOrder(m, KernelThread(m, table, e), e + 1)

\* wp.empty(shape=(cell_count, 4)): no cell holds an edge id yet; -1 marks a cell
\* that has not been stored to, and no such cell is read (TopologyReady)
EmptyTable(m) == [q \in 0..(m.cell_count - 1) |-> [k \in Slots |-> -1]]

----------------------------------------------------------------------------
(* Construction *)

\* Quadmesh2DSpaceTopology.name: the suffix that keys the specialized function
TopologyName(s) == <<s.kind, s.family, s.ORDER>>

\* cache.dynamic_func(suffix=self.name), one host thread: specialize the function
\* unless the key is cached, return the cached function
dynamic_func(key) ==
    /\ func_cache' = func_cache \cup {key}
    /\ specializations' =
           IF key \in func_cache THEN specializations
           ELSE [specializations EXCEPT ![key] = @ + 1]
    /\ element_node_index' = key

\* the state a raised exception leaves: the exception propagates out of the call
Raise(exc) ==
    /\ pc' = "error"
    /\ error' = exc
    /\ UNCHANGED <<shape, allocated, launched, quad_edge_indices, writers, tpc,
                   element_node_index, func_cache, specializations>>

\* __init__ with the family tested only after the builder has been started
TopologyInit_check_after_launch(s) ==
    /\ shape' = s
    /\ allocated' = TRUE
    /\ quad_edge_indices' = EmptyTable(mesh)
    /\ writers' = [q \in Quads |-> [k \in Slots |-> <<>>]]
    /\ launched' = TRUE
    /\ tpc' = [e \in Edges |-> "start"]
    /\ IF ~is_closed(s.family)
       THEN /\ pc' = "error"
            /\ error' = "ValueError"
            /\ UNCHANGED <<element_node_index, func_cache, specializations>>
       ELSE /\ dynamic_func(TopologyName(s))
            /\ pc' = "constructed"
            /\ error' = "none"

\* Quadmesh2DSpaceTopology.__init__ followed by the subclass's
\* self.element_node_index = self._make_element_node_index()
TopologyInit(s) ==
    IF ~is_closed(s.family)
    THEN Raise("ValueError")
    ELSE /\ shape' = s
         \* _compute_quad_edge_indices: allocate, then start one unit of work per edge
         /\ allocated' = TRUE
         /\ quad_edge_indices' = EmptyTable(mesh)
         /\ writers' = [q \in Quads |-> [k \in Slots |-> <<>>]]
         /\ launched' = TRUE
         /\ tpc' = [e \in Edges |-> "start"]
         /\ dynamic_func(TopologyName(s))
         /\ pc' = "constructed"
         /\ error' = "none"

\* make_quadmesh_space_topology(mesh, shape)
make_quadmesh_space_topology(s) ==
    /\ pc = "idle"
    /\ requested' = s
    /\ IF s.kind \in {"serendipity", "bipolynomial"}
       THEN TopologyInit(s)
       ELSE Raise("ValueError")
    /\ UNCHANGED <<mesh, arg_cache, builds, ret, result, thr>>

----------------------------------------------------------------------------
(* Per-device argument struct *)

Devices == {"cpu", "cuda:0"}

\* the body of topo_arg_value: a new Quadmesh2DTopologyArg; id stands for the
\* identity of the Python object (the device and the serial number of the build)
NewTopologyArg(device) ==
    [ device |-> device,
      id |-> builds[device] + 1,
      quad_edge_indices |-> quad_edge_indices,
      edge_vertex_indices |-> mesh.edge_vertex_indices,
      vertex_count |-> mesh.vertex_count,
      edge_count |-> mesh.side_count ]

\* the struct is ready for use: the copy of the table to the device, and every
\* kernel that reads it, is ordered after the builder kernel on the device stream
TopologyReady == pc = "constructed" /\ KernelDone

\* cache.cached_arg_value, one host thread: the decorated body runs (built is its
\* result) only if the object's cache has no entry for the device; the cached
\* entry is returned
cached_arg_value(device, built) ==
    /\ IF arg_cache[device] = NoArg
       THEN /\ arg_cache' = [arg_cache EXCEPT ![device] = built]
            /\ builds' = [builds EXCEPT ![device] = @ + 1]
       ELSE UNCHANGED <<arg_cache, builds>>
    /\ ret' = arg_cache'[device]

\* topo_arg_value without its decorator: every call runs the body
topo_arg_value_undecorated(device) ==
    /\ TopologyReady
    /\ builds[device] < MaxBuilds
    /\ builds' = [builds EXCEPT ![device] = @ + 1]
    /\ ret' = NewTopologyArg(device)
    /\ UNCHANGED <<arg_cache, element_node_index, func_cache, specializations, result, thr>>
    /\ UNCHANGED topologyVars

\* @cache.cached_arg_value def topo_arg_value(self, device)
topo_arg_value(device) ==
    /\ TopologyReady
    /\ cached_arg_value(device, NewTopologyArg(device))
    /\ UNCHANGED <<element_node_index, func_cache, specializations, result, thr>>
    /\ UNCHANGED topologyVars

----------------------------------------------------------------------------
(* Node indexing *)

\* geo_cell_arg: the mesh's CellArg, whose topology holds quad_vertex_indices
CellArg(m) == [quad_vertex_indices |-> m.quad_vertex_indices]

\* wp.select(cond, arg_if_false, arg_if_true)
select(cond, a, b) == IF cond THEN b ELSE a

Max(a, b) == IF a >= b THEN a ELSE b

\* node_count with the cell term not squared
bipolynomial_node_count_linear(m, s) ==
    LET INTERIOR_NODES_PER_SIDE == Max(0, s.ORDER - 1)
    IN m.vertex_count
       + m.side_count * INTERIOR_NODES_PER_SIDE
       + m.cell_count * INTERIOR_NODES_PER_SIDE

\* Quadmesh2DBipolynomialSpaceTopology.node_count
bipolynomial_node_count(m, s) ==
    LET ORDER == s.ORDER
        INTERIOR_NODES_PER_SIDE == Max(0, ORDER - 1)
        INTERIOR_NODES_PER_CELL == INTERIOR_NODES_PER_SIDE * INTERIOR_NODES_PER_SIDE
    IN m.vertex_count
       + m.side_count * INTERIOR_NODES_PER_SIDE
       + m.cell_count * INTERIOR_NODES_PER_CELL

\* Quadmesh2DSerendipitySpaceTopology.node_count
serendipity_node_count(m, s) == m.vertex_count + (s.ORDER - 1) * m.side_count

\* node_count() of the constructed topology
node_count(m, s) ==
    IF s.kind = "bipolynomial" THEN bipolynomial_node_count(m, s)
    ELSE serendipity_node_count(m, s)

\* the edge branches without the comparison of local_vs with global_vs
bipolynomial_edge_node_unmirrored(cell_arg, topo_arg, ORDER, element_index, side_start, if_differ, if_same) ==
    LET side_index == topo_arg.quad_edge_indices[element_index][side_start]
    IN topo_arg.vertex_count + (ORDER - 1) * side_index + if_differ - 1

\* the edge branches with the position along the edge left 1-based
bipolynomial_edge_node_one_based(cell_arg, topo_arg, ORDER, element_index, side_start, if_differ, if_same) ==
    LET side_index == topo_arg.quad_edge_indices[element_index][side_start]
        local_vs == cell_arg.quad_vertex_indices[element_index][side_start]
        global_vs == topo_arg.edge_vertex_indices[side_index][0]
    IN topo_arg.vertex_count + (ORDER - 1) * side_index
       + select(local_vs = global_vs, if_differ, if_same)

\* the edge branches of the bipolynomial element_node_index: the node of slot
\* side_start whose wp.select arguments are (if_differ, if_same)
bipolynomial_edge_node(cell_arg, topo_arg, ORDER, element_index, side_start, if_differ, if_same) ==
    LET side_index == topo_arg.quad_edge_indices[element_index][side_start]
        local_vs == cell_arg.quad_vertex_indices[element_index][side_start]
        global_vs == topo_arg.edge_vertex_indices[side_index][0]
        index_in_side == select(local_vs = global_vs, if_differ, if_same) - 1
    IN topo_arg.vertex_count + (ORDER - 1) * side_index + index_in_side

\* the interior branch with the cell's block sized as one row of interior nodes
bipolynomial_interior_node_row_stride(topo_arg, ORDER, element_index, node_i, node_j) ==
    LET INTERIOR_NODES_PER_SIDE == Max(0, ORDER - 1)
    IN topo_arg.vertex_count
       + topo_arg.edge_count * INTERIOR_NODES_PER_SIDE
       + element_index * INTERIOR_NODES_PER_SIDE
       + (node_i - 1) * INTERIOR_NODES_PER_SIDE
       + node_j
       - 1

\* the last return of the bipolynomial element_node_index: a node inside the cell
bipolynomial_interior_node(topo_arg, ORDER, element_index, node_i, node_j) ==
    LET INTERIOR_NODES_PER_SIDE == Max(0, ORDER - 1)
        INTERIOR_NODES_PER_CELL == INTERIOR_NODES_PER_SIDE * INTERIOR_NODES_PER_SIDE
    IN topo_arg.vertex_count
       + topo_arg.edge_count * INTERIOR_NODES_PER_SIDE
       + element_index * INTERIOR_NODES_PER_CELL
       + (node_i - 1) * INTERIOR_NODES_PER_SIDE
       + node_j
       - 1

\* Quadmesh2DBipolynomialSpaceTopology._make_element_node_index.element_node_index
bipolynomial_element_node_index(cell_arg, topo_arg, ORDER, element_index, node_index_in_elt) ==
    LET node_i == node_index_in_elt \div (ORDER + 1)
        node_j == node_index_in_elt - (ORDER + 1) * node_i
        quad_vtx == cell_arg.quad_vertex_indices[element_index]
    IN IF node_i = 0 THEN
            IF node_j = 0 THEN quad_vtx[0]
            ELSE IF node_j = ORDER THEN quad_vtx[3]
            \* 3-0 edge
            ELSE bipolynomial_edge_node(cell_arg, topo_arg, ORDER, element_index, 3,
                                        ORDER - node_j, node_j)
       ELSE IF node_i = ORDER THEN
            IF node_j = 0 THEN quad_vtx[1]
            ELSE IF node_j = ORDER THEN quad_vtx[2]
            \* 1-2 edge
            ELSE bipolynomial_edge_node(cell_arg, topo_arg, ORDER, element_index, 1,
                                        node_j, ORDER - node_j)
       ELSE IF node_j = 0 THEN
            \* 0-1 edge
            bipolynomial_edge_node(cell_arg, topo_arg, ORDER, element_index, 0,
                                   node_i, ORDER - node_i)
       ELSE IF node_j = ORDER THEN
            \* 2-3 edge
            bipolynomial_edge_node(cell_arg, topo_arg, ORDER, element_index, 2,
                                   ORDER - node_i, node_i)
       ELSE bipolynomial_interior_node(topo_arg, ORDER, element_index, node_i, node_j)

\* SquareSerendipityShapeFunctions.node_type_and_type_index: the 4 vertex nodes
\* first, then the edge nodes, alternating between the two axes
node_type_and_type_index(node_index_in_elt) ==
    IF node_index_in_elt < 4 THEN <<"VERTEX", node_index_in_elt>>
    ELSE LET type_index == (node_index_in_elt - 4) \div 2
             axis == (node_index_in_elt - 4) - 2 * type_index
         IN <<IF axis = 0 THEN "EDGE_X" ELSE "EDGE_Y", type_index>>

\* SquareSerendipityShapeFunctions.side_offset_and_index
side_offset_and_index(type_index) ==
    LET index_in_side == type_index \div 2
        side_offset == type_index - 2 * index_in_side
    IN <<side_offset, index_in_side>>

\* the vertex table left as the identity
SHAPE_TO_QUAD_IDX_identity == [t \in 0..3 |-> t]

SHAPE_TO_QUAD_IDX == [t \in 0..3 |-> <<0, 3, 1, 2>>[t + 1]]

\* the slot selection without the mirror on the sides walked backwards
serendipity_side_unmirrored(ORDER, node_type, side_offset, index_in_side) ==
    IF node_type = "EDGE_X"
    THEN [side_start |-> IF side_offset = 0 THEN 0 ELSE 2, index_in_side |-> index_in_side]
    ELSE [side_start |-> IF side_offset = 0 THEN 3 ELSE 1, index_in_side |-> index_in_side]

\* the slot and the index along it that the serendipity element_node_index picks
\* for an edge node, before the orientation of the edge is looked at
serendipity_side(ORDER, node_type, side_offset, index_in_side) ==
    IF node_type = "EDGE_X"
    THEN IF side_offset = 0
         THEN [side_start |-> 0, index_in_side |-> index_in_side]
         ELSE [side_start |-> 2, index_in_side |-> ORDER - 2 - index_in_side]
    ELSE IF side_offset = 0
         THEN [side_start |-> 3, index_in_side |-> ORDER - 2 - index_in_side]
         ELSE [side_start |-> 1, index_in_side |-> index_in_side]

\* Quadmesh2DSerendipitySpaceTopology._make_element_node_index.element_node_index
serendipity_element_node_index(cell_arg, topo_arg, ORDER, element_index, node_index_in_elt) ==
    LET node_type == node_type_and_type_index(node_index_in_elt)[1]
        type_index == node_type_and_type_index(node_index_in_elt)[2]
    IN IF node_type = "VERTEX"
       THEN cell_arg.quad_vertex_indices[element_index][SHAPE_TO_QUAD_IDX[type_index]]
       ELSE LET side_offset == side_offset_and_index(type_index)[1]
                side == serendipity_side(ORDER, node_type, side_offset,
                                         side_offset_and_index(type_index)[2])
                side_start == side.side_start
                side_index == topo_arg.quad_edge_indices[element_index][side_start]
                local_vs == cell_arg.quad_vertex_indices[element_index][side_start]
                global_vs == topo_arg.edge_vertex_indices[side_index][0]
                index_in_side ==
                    IF local_vs # global_vs
                    THEN ORDER - 2 - side.index_in_side  \* Flip indexing direction
                    ELSE side.index_in_side
            IN topo_arg.vertex_count + (ORDER - 1) * side_index + index_in_side

\* the specialized function a topology holds, applied
ApplyElementNodeIndex(key, cell_arg, topo_arg, element_index, node_index_in_elt) ==
    IF key[1] = "bipolynomial"
    THEN bipolynomial_element_node_index(cell_arg, topo_arg, key[3], element_index,
                                         node_index_in_elt)
    ELSE serendipity_element_node_index(cell_arg, topo_arg, key[3], element_index,
                                        node_index_in_elt)

Nodes(s) == 0..(NODES_PER_ELEMENT(s) - 1)

\* a kernel evaluates self.element_node_index(cell_arg, topo_arg, q, n) with the
\* struct the last topo_arg_value call returned
EvalElementNodeIndex(q, n) ==
    /\ TopologyReady
    /\ ret # NoArg
    /\ result' = [ op |-> "element_node_index", element_index |-> q,
                   node_index_in_elt |-> n,
                   value |-> ApplyElementNodeIndex(element_node_index, CellArg(mesh),
                                                   ret, q, n) ]
    /\ UNCHANGED <<element_node_index, func_cache, specializations, arg_cache, builds,
                   ret, thr>>
    /\ UNCHANGED topologyVars

\* a caller evaluates self.node_count()
EvalNodeCount ==
    /\ pc = "constructed"
    /\ result' = [op |-> "node_count", value |-> node_count(mesh, shape)]
    /\ UNCHANGED <<element_node_index, func_cache, specializations, arg_cache, builds,
                   ret, thr>>
    /\ UNCHANGED topologyVars

----------------------------------------------------------------------------
(* Concurrent first use of the two caches: a lookup that misses and the       *)
(* insertion that follows are separate steps of a host thread, with no lock   *)

Threads == 1..NumThreads
Idle == [at |-> "idle"]

\* cached_arg_value.get_arg up to the test `device not in cache`
ArgLookup(t, device) ==
    /\ TopologyReady
    /\ thr[t] = Idle
    /\ IF arg_cache[device] = NoArg
       THEN /\ thr' = [thr EXCEPT ![t] = [at |-> "arg_miss", device |-> device]]
            /\ UNCHANGED ret
       ELSE /\ ret' = arg_cache[device]
            /\ UNCHANGED thr
    /\ UNCHANGED <<element_node_index, func_cache, specializations, arg_cache, builds,
                   result>>
    /\ UNCHANGED topologyVars

\* cached_arg_value.get_arg after a miss: cache[device] = func(obj, device)
ArgBuild(t) ==
    /\ thr[t].at = "arg_miss"
    /\ LET device == thr[t].device
       IN /\ arg_cache' = [arg_cache EXCEPT ![device] = NewTopologyArg(device)]
          /\ builds' = [builds EXCEPT ![device] = @ + 1]
          /\ ret' = NewTopologyArg(device)
    /\ thr' = [thr EXCEPT ![t] = Idle]
    /\ UNCHANGED <<element_node_index, func_cache, specializations, result>>
    /\ UNCHANGED topologyVars

\* dynamic_func up to the test `key not in _func_cache`, reached from the
\* construction of another topology with the configuration `key`
FuncLookup(t, key) ==
    /\ thr[t] = Idle
    /\ IF key \notin func_cache
       THEN /\ thr' = [thr EXCEPT ![t] = [at |-> "func_miss", key |-> key]]
            /\ UNCHANGED element_node_index
       ELSE /\ element_node_index' = key
            /\ UNCHANGED thr
    /\ UNCHANGED <<func_cache, specializations, arg_cache, builds, ret, result>>
    /\ UNCHANGED topologyVars

\* dynamic_func after a miss: _func_cache[key] = the newly specialized function
FuncSpecialize(t) ==
    /\ thr[t].at = "func_miss"
    /\ LET key == thr[t].key
       IN /\ func_cache' = func_cache \cup {key}
          /\ specializations' = [specializations EXCEPT ![key] = @ + 1]
          /\ element_node_index' = key
    /\ thr' = [thr EXCEPT ![t] = Idle]
    /\ UNCHANGED <<arg_cache, builds, ret, result>>
    /\ UNCHANGED topologyVars

----------------------------------------------------------------------------
(* Specifications *)

Keys == { TopologyName(s) : s \in Shapes }

\* before the construction call
Init ==
    /\ mesh \in Meshes
    /\ requested = NoShape
    /\ pc = "idle"
    /\ error = "none"
    /\ shape = NoShape
    /\ allocated = FALSE
    /\ launched = FALSE
    /\ quad_edge_indices = <<>>
    /\ writers = <<>>
    /\ tpc = <<>>
    /\ element_node_index = NoFunc
    /\ func_cache = {}
    /\ specializations = [k \in Keys |-> 0]
    /\ arg_cache = [d \in Devices |-> NoArg]
    /\ builds = [d \in Devices |-> 0]
    /\ ret = NoArg
    /\ result = NoResult
    /\ thr = [t \in Threads |-> Idle]

\* construction, the builder kernel and the argument struct
Next ==
    \/ \E s \in Shapes : make_quadmesh_space_topology(s)
    \/ \E e \in Edges : KernelFirstQuad(e)
    \/ \E e \in Edges : KernelSecondQuad(e)
    \/ \E d \in Devices : topo_arg_value(d)

Spec == Init /\ [][Next]_vars

\* the shapes a topology can be constructed with
ClosedShapes ==
    { s \in Shapes : s.kind \in {"serendipity", "bipolynomial"} /\ is_closed(s.family) }

\* the state make_quadmesh_space_topology(m, s) leaves once its kernel has finished
Constructed(m, s) ==
    /\ mesh = m
    /\ requested = s
    /\ pc = "constructed"
    /\ error = "none"
    /\ shape = s
    /\ allocated = TRUE
    /\ launched = TRUE
    /\ quad_edge_indices = LaunchInOrder(m, EmptyTable(m), 0)
    /\ writers = [q \in Quads |-> [k \in Slots |-> <<quad_edge_indices[q][k]>>]]
    /\ tpc = [e \in Edges |-> "done"]
    /\ element_node_index = TopologyName(s)
    /\ func_cache = {TopologyName(s)}
    /\ specializations = [k \in Keys |-> IF k = TopologyName(s) THEN 1 ELSE 0]
    /\ arg_cache = [d \in Devices |-> NoArg]
    /\ builds = [d \in Devices |-> 0]
    /\ ret = NoArg
    /\ result = NoResult
    /\ thr = [t \in Threads |-> Idle]

\* every constructed topology of the strip; edge_quad_indices, which only the
\* builder reads, is left in its listed order
InitIndex ==
    \E rot \in [0..1 -> 0..3], refl \in BOOLEAN, pattern \in FlipPatterns, s \in ClosedShapes :
        Constructed(StripMesh(rot, refl, pattern, FALSE), s)

\* a constructed topology in use: argument structs and node index evaluations
NextIndex ==
    \/ \E d \in Devices : topo_arg_value(d)
    \/ \E q \in Quads, n \in Nodes(shape) : EvalElementNodeIndex(q, n)
    \/ EvalNodeCount

SpecIndex == InitIndex /\ [][NextIndex]_vars

InitThreads ==
    \E s \in ClosedShapes :
        /\ s.kind = "bipolynomial"
        /\ Constructed(StripMesh([q \in 0..1 |-> 0], FALSE, "none", FALSE), s)

\* the configurations the host threads construct topologies for
ThreadKeys == { TopologyName(s) : s \in {c \in ClosedShapes : c.ORDER = shape.ORDER} }

\* a constructed topology used by several host threads at once
NextThreads ==
    \/ \E t \in Threads, d \in Devices : ArgLookup(t, d)
    \/ \E t \in Threads : ArgBuild(t)
    \/ \E t \in Threads, key \in ThreadKeys : FuncLookup(t, key)
    \/ \E t \in Threads : FuncSpecialize(t)

SpecThreads == InitThreads /\ [][NextThreads]_vars

----------------------------------------------------------------------------
(* Topology Builder *)

\* the vertex pair of local slot k of quad q: local vertices k and k+1 mod 4
SlotVertices(q, k) ==
    {mesh.quad_vertex_indices[q][k], mesh.quad_vertex_indices[q][(k + 1) % 4]}

EdgeVertices(e) == {mesh.edge_vertex_indices[e][0], mesh.edge_vertex_indices[e][1]}

\* C3: once the builder kernel has run, quad_edge_indices[q][k] is the id of the
\* edge whose vertex pair is that of local vertices k and k+1 mod 4 of quad q, in
\* either orientation, slot 3 (the default) holding the wrap-around edge 3-0.
C3_SlotsNameTheirEdges ==
    KernelDone =>
        \A q \in Quads, k \in Slots :
            /\ quad_edge_indices[q][k] \in Edges
            /\ EdgeVertices(quad_edge_indices[q][k]) = SlotVertices(q, k)

\* the kernel has finished on a mesh whose shared edge is the wrap-around slot of
\* one quad and is listed against that quad's direction of travel
C3_Witness ==
    /\ KernelDone
    /\ \E q \in Quads :
          /\ quad_edge_indices[q][3] = 5
          /\ mesh.edge_vertex_indices[5][0] = mesh.quad_vertex_indices[q][0]
          /\ mesh.edge_vertex_indices[5][1] = mesh.quad_vertex_indices[q][3]

\* C4: whatever the order and interleaving of the per-edge units of work, no cell
\* of quad_edge_indices is stored to by two of them, each cell has been stored to
\* exactly once when the kernel has finished, and the finished table is the one
\* the in-order run produces.
C4_DisjointWrites ==
    allocated =>
        /\ \A q \in Quads, k \in Slots : Len(writers[q][k]) <= 1
        /\ KernelDone =>
              /\ \A q \in Quads, k \in Slots : Len(writers[q][k]) = 1
              /\ quad_edge_indices = LaunchInOrder(mesh, EmptyTable(mesh), 0)

\* the kernel has finished on a mesh whose shared edge lists its two quads as
\* (1, 0), and every cell has been stored to
C4_Witness ==
    /\ KernelDone
    /\ mesh.edge_quad_indices[5] = [i \in 0..1 |-> 1 - i]
    /\ \A q \in Quads, k \in Slots : writers[q][k] # <<>>

----------------------------------------------------------------------------
(* Argument struct cache *)

\* C5: over any sequence of topo_arg_value calls the body runs at most once per
\* device, and the struct a call returns is the one the first call for its device
\* built (build 1), the cached one, holding the topology's table, the mesh's edge
\* vertices and its vertex and edge counts.
C5_BuiltOncePerDevice ==
    /\ \A d \in Devices : builds[d] <= 1
    /\ ret # NoArg =>
          /\ ret = arg_cache[ret.device]
          /\ ret.id = 1
          /\ ret.quad_edge_indices = quad_edge_indices
          /\ ret.edge_vertex_indices = mesh.edge_vertex_indices
          /\ ret.vertex_count = mesh.vertex_count
          /\ ret.edge_count = mesh.side_count

\* both devices have been asked for, and the last call was a repeated one
C5_Witness ==
    /\ \A d \in Devices : builds[d] = 1
    /\ ret # NoArg
    /\ ret.device = "cpu"
    /\ arg_cache["cuda:0"] # NoArg

----------------------------------------------------------------------------
(* Configuration errors *)

\* C7: a construction call with a shape that is neither serendipity nor
\* bipolynomial, or whose family is not closed, raises ValueError, and leaves no
\* table allocated, no kernel launched, no shape stored and no index function.
C7_EagerErrors ==
    /\ pc # "idle" =>
          ((requested.kind \notin {"serendipity", "bipolynomial"}
             \/ ~is_closed(requested.family)) <=> error = "ValueError")
    /\ error = "ValueError" =>
          /\ pc = "error"
          /\ ~allocated
          /\ ~launched
          /\ quad_edge_indices = <<>>
          /\ shape = NoShape
          /\ element_node_index = NoFunc
          /\ func_cache = {}

\* a supported shape of an open family has been refused
C7_Witness ==
    /\ error = "ValueError"
    /\ requested.kind = "serendipity"
    /\ ~is_closed(requested.family)

----------------------------------------------------------------------------
(* Physical nodes                                                            *)
(*                                                                           *)
(* Local vertices 0, 1, 2, 3 of a quad sit at the reference corners (0,0),   *)
(* (1,0), (1,1), (0,1). A point of an edge is named by the edge's two vertex *)
(* ids, smaller first, and its distance in 1..ORDER-1 from the smaller one.  *)

EdgePoint(a, b, d, ORDER) ==
    IF a < b THEN <<"edge", a, b, d>> ELSE <<"edge", b, a, ORDER - d>>

\* where node (node_i, node_j) of the (ORDER+1) x (ORDER+1) lattice of quad q is
BipolynomialPoint(ORDER, q, n) ==
    LET i == n \div (ORDER + 1)
        j == n % (ORDER + 1)
        v == mesh.quad_vertex_indices[q]
    IN IF i = 0 /\ j = 0 THEN <<"vertex", v[0]>>
       ELSE IF i = ORDER /\ j = 0 THEN <<"vertex", v[1]>>
       ELSE IF i = ORDER /\ j = ORDER THEN <<"vertex", v[2]>>
       ELSE IF i = 0 /\ j = ORDER THEN <<"vertex", v[3]>>
       ELSE IF j = 0 THEN EdgePoint(v[0], v[1], i, ORDER)
       ELSE IF i = ORDER THEN EdgePoint(v[1], v[2], j, ORDER)
       ELSE IF j = ORDER THEN EdgePoint(v[3], v[2], i, ORDER)
       ELSE IF i = 0 THEN EdgePoint(v[0], v[3], j, ORDER)
       ELSE <<"cell", q, i, j>>

\* the local vertices a serendipity edge node's side runs between, in the order
\* index_in_side counts
SerendipitySideEnds(node_type, side_offset) ==
    IF node_type = "EDGE_X" THEN (IF side_offset = 0 THEN <<0, 1>> ELSE <<3, 2>>)
    ELSE (IF side_offset = 0 THEN <<0, 3>> ELSE <<1, 2>>)

\* where node n of the serendipity element q is
SerendipityPoint(ORDER, q, n) ==
    LET node_type == node_type_and_type_index(n)[1]
        type_index == node_type_and_type_index(n)[2]
        v == mesh.quad_vertex_indices[q]
    IN IF node_type = "VERTEX" THEN <<"vertex", v[<<0, 3, 1, 2>>[type_index + 1]]>>
       ELSE LET ends == SerendipitySideEnds(node_type, side_offset_and_index(type_index)[1])
            IN EdgePoint(v[ends[1]], v[ends[2]],
                         side_offset_and_index(type_index)[2] + 1, ORDER)

\* the edge with the vertex pair {a, b}
EdgeBetween(a, b) == CHOOSE e \in Edges : EdgeVertices(e) = {a, b}

\* the last evaluation is element_node_index of a topology of this kind
Evaluated(kind) == result.op = "element_node_index" /\ shape.kind = kind

\* element_node_index as the topology evaluates it after the last topo_arg_value
Index(q, n) == ApplyElementNodeIndex(element_node_index, CellArg(mesh), ret, q, n)

----------------------------------------------------------------------------
(* Continuity *)

\* C1: bipolynomial, ORDER >= 2: the index of a node inside an edge is the index
\* the other quad of that edge gets for its local node at the same point,
\* whatever the slots and directions of travel of the two quads.
C1_BipolynomialContinuity ==
    (Evaluated("bipolynomial") /\ shape.ORDER >= 2) =>
        LET point == BipolynomialPoint(shape.ORDER, result.element_index,
                                       result.node_index_in_elt)
        IN point[1] = "edge" =>
              \A q1 \in Quads \ {result.element_index}, n1 \in Nodes(shape) :
                  BipolynomialPoint(shape.ORDER, q1, n1) = point
                      => Index(q1, n1) = result.value

\* a node inside the shared edge has been indexed through a quad that travels the
\* edge in the same direction as the other quad does, at an order where mirroring
\* moves it
C1_Witness ==
    /\ Evaluated("bipolynomial")
    /\ shape.ORDER = 3
    /\ BipolynomialPoint(3, result.element_index, result.node_index_in_elt)
           = <<"edge", 1, 4, 1>>
    /\ \E k \in Slots : \A q \in Quads :
           /\ quad_edge_indices[q][k] = 5
           /\ mesh.quad_vertex_indices[q][k] = 1

\* C8: serendipity, ORDER >= 2: an edge node, taken from the shape as (axis,
\* side_offset, index_in_side), gets vertex_count + (ORDER-1)*e + d, with e the
\* edge it lies on and d its position counted from edge_vertex_indices[e][0]; the
\* other quad of the edge gets the same index for its node at that point.
C8_SerendipityContinuity ==
    (Evaluated("serendipity") /\ shape.ORDER >= 2) =>
        LET ORDER == shape.ORDER
            q == result.element_index
            n == result.node_index_in_elt
            node_type == node_type_and_type_index(n)[1]
            side == side_offset_and_index(node_type_and_type_index(n)[2])
            ends == SerendipitySideEnds(node_type, side[1])
            from == mesh.quad_vertex_indices[q][ends[1]]
            to == mesh.quad_vertex_indices[q][ends[2]]
            e == EdgeBetween(from, to)
            d == IF mesh.edge_vertex_indices[e][0] = from THEN side[2]
                 ELSE ORDER - 2 - side[2]
        IN node_type # "VERTEX" =>
              /\ d \in 0..(ORDER - 2)
              /\ result.value = mesh.vertex_count + (ORDER - 1) * e + d
              /\ \A q1 \in Quads \ {q}, n1 \in Nodes(shape) :
                    SerendipityPoint(ORDER, q1, n1) = SerendipityPoint(ORDER, q, n)
                        => Index(q1, n1) = result.value

\* a node of the shared edge has been indexed through the quad that has the edge
\* on its far x side, against the edge's canonical direction
C8_Witness ==
    /\ Evaluated("serendipity")
    /\ shape.ORDER = 3
    /\ node_type_and_type_index(result.node_index_in_elt)[1] = "EDGE_X"
    /\ side_offset_and_index(node_type_and_type_index(result.node_index_in_elt)[2])[1] = 1
    /\ quad_edge_indices[result.element_index][2] = 5
    /\ mesh.quad_vertex_indices[result.element_index][2] # mesh.edge_vertex_indices[5][0]

----------------------------------------------------------------------------
(* Bijectivity, corners, counts *)

\* C2: bipolynomial: every index lies in 0..node_count()-1, two (element, local
\* node) pairs get the same index only if they are the same physical node, and
\* every value of 0..node_count()-1 is the index of some pair.
C2_BipolynomialBijection ==
    /\ Evaluated("bipolynomial") =>
          /\ result.value \in 0..(node_count(mesh, shape) - 1)
          /\ \A q \in Quads, n \in Nodes(shape) :
                Index(q, n) = result.value
                    => BipolynomialPoint(shape.ORDER, q, n)
                         = BipolynomialPoint(shape.ORDER, result.element_index,
                                             result.node_index_in_elt)
    /\ (result.op = "node_count" /\ shape.kind = "bipolynomial" /\ ret # NoArg) =>
          { Index(q, n) : q \in Quads, n \in Nodes(shape) } = 0..(result.value - 1)

\* node_count() has been taken of an order 3 bipolynomial topology whose struct
\* is at hand: 28 nodes
C2_Witness ==
    /\ result.op = "node_count"
    /\ shape.kind = "bipolynomial"
    /\ shape.ORDER = 3
    /\ ret # NoArg
    /\ Cardinality({ Index(q, n) : q \in Quads, n \in Nodes(shape) }) = 28

\* the struct with its two arrays taken away
WithoutArrays(topo_arg) ==
    [topo_arg EXCEPT !.quad_edge_indices = <<>>, !.edge_vertex_indices = <<>>]

\* C9: a corner node gets a vertex id of its quad, below vertex_count: the
\* bipolynomial nodes (0,0), (ORDER,0), (ORDER,ORDER), (0,ORDER) get vertices 0,
\* 1, 2, 3 of the quad, a serendipity VERTEX node of type index t gets vertex
\* (0, 3, 1, 2)[t]; the index is the same with the struct's arrays taken away.
C9_CornerIdentity ==
    LET q == result.element_index
        n == result.node_index_in_elt
        ORDER == shape.ORDER
        v == mesh.quad_vertex_indices[q]
    IN /\ Evaluated("bipolynomial") =>
             \A c \in 0..3 :
                 n = <<0, ORDER * (ORDER + 1), ORDER * (ORDER + 1) + ORDER, ORDER>>[c + 1]
                   => /\ result.value = v[c]
                      /\ result.value \in 0..(mesh.vertex_count - 1)
                      /\ bipolynomial_element_node_index(
                             CellArg(mesh), WithoutArrays(ret), ORDER, q, n) = v[c]
       /\ Evaluated("serendipity") =>
             \A t \in 0..3 :
                 node_type_and_type_index(n) = <<"VERTEX", t>>
                   => /\ result.value = v[<<0, 3, 1, 2>>[t + 1]]
                      /\ result.value \in 0..(mesh.vertex_count - 1)
                      /\ serendipity_element_node_index(
                             CellArg(mesh), WithoutArrays(ret), ORDER, q, n)
                           = v[<<0, 3, 1, 2>>[t + 1]]

\* the serendipity VERTEX node of type index 1 has been indexed in a quad whose
\* local vertices 1 and 3 differ in id from their local numbers
C9_Witness ==
    /\ Evaluated("serendipity")
    /\ node_type_and_type_index(result.node_index_in_elt) = <<"VERTEX", 1>>
    /\ result.value = mesh.quad_vertex_indices[result.element_index][3]
    /\ result.value # mesh.quad_vertex_indices[result.element_index][1]

\* C10: node_count() is V + E*(P-1) + C*(P-1)^2 for the bipolynomial variant and
\* V + E*(P-1) for the serendipity variant, in every state of the caches; 15 for
\* the order 2 bipolynomial space on the 2x1 strip.
C10_CountFormulas ==
    result.op = "node_count" =>
        LET V == mesh.vertex_count
            E == mesh.side_count
            C == mesh.cell_count
            P == shape.ORDER
        IN /\ shape.kind = "bipolynomial" =>
                 result.value = V + E * (P - 1) + C * (P - 1) * (P - 1)
           /\ shape.kind = "serendipity" => result.value = V + E * (P - 1)
           /\ (shape.kind = "bipolynomial" /\ P = 2 /\ V = 6 /\ E = 7 /\ C = 2)
                 => result.value = 15

\* node_count() of the order 2 bipolynomial space on the strip has returned 15
\* with both devices' structs cached
C10_Witness ==
    /\ result = [op |-> "node_count", value |-> 15]
    /\ shape.kind = "bipolynomial"
    /\ \A d \in Devices : arg_cache[d] # NoArg

----------------------------------------------------------------------------
(* Concurrent first use *)

\* C6: when host threads use the caches concurrently, the argument struct is
\* built at most once per device, the index function is specialized at most once
\* per configuration key, and a thread is handed the one struct that was built.
C6_AtMostOnceInsertion ==
    /\ \A d \in Devices : builds[d] <= 1
    /\ \A k \in Keys : specializations[k] <= 1
    /\ ret # NoArg => ret.id = 1

----------------------------------------------------------------------------
(* Edge-node rule and index ranges *)

\* the local slot k a bipolynomial edge node lies on, and its position p in
\* 1..ORDER-1 counted from local vertex k; slot -1 for a corner or interior node
BipolynomialSide(ORDER, n) ==
    LET i == n \div (ORDER + 1)
        j == n % (ORDER + 1)
        inside(x) == 0 < x /\ x < ORDER
    IN IF j = 0 /\ inside(i) THEN [slot |-> 0, p |-> i]
       ELSE IF i = ORDER /\ inside(j) THEN [slot |-> 1, p |-> j]
       ELSE IF j = ORDER /\ inside(i) THEN [slot |-> 2, p |-> ORDER - i]
       ELSE IF i = 0 /\ inside(j) THEN [slot |-> 3, p |-> ORDER - j]
       ELSE [slot |-> -1, p |-> 0]

\* C11: a bipolynomial edge node on slot k of quad q, at position p from local
\* vertex k, on edge e = quad_edge_indices[q][k], gets vertex_count + (ORDER-1)*e
\* + (p - 1) when quad_vertex_indices[q][k] = edge_vertex_indices[e][0], and the
\* mirrored vertex_count + (ORDER-1)*e + (ORDER - p - 1) when the two differ.
C11_MirrorWhenVerticesDiffer ==
    (Evaluated("bipolynomial") /\ shape.ORDER >= 2) =>
        LET ORDER == shape.ORDER
            q == result.element_index
            side == BipolynomialSide(ORDER, result.node_index_in_elt)
            e == ret.quad_edge_indices[q][side.slot]
        IN side.slot \in Slots =>
              result.value = ret.vertex_count + (ORDER - 1) * e
                  + (IF mesh.quad_vertex_indices[q][side.slot] = ret.edge_vertex_indices[e][0]
                     THEN side.p - 1
                     ELSE ORDER - side.p - 1)

\* where the node of the last evaluation is
EvaluatedPoint ==
    IF shape.kind = "bipolynomial"
    THEN BipolynomialPoint(shape.ORDER, result.element_index, result.node_index_in_elt)
    ELSE SerendipityPoint(shape.ORDER, result.element_index, result.node_index_in_elt)

\* C12: for ORDER >= 2 a corner node's index lies in [0, V), an edge node's index
\* lies in [V, V + E*(ORDER-1)) at an offset in [0, ORDER-2] of its edge's block, a
\* bipolynomial cell-interior node's index is V + E*(ORDER-1) + element_index *
\* (ORDER-1)^2 + (node_i-1)*(ORDER-1) + (node_j-1), in [V + E*(ORDER-1),
\* node_count()), and no serendipity index reaches V + E*(ORDER-1).
C12_RangePartition ==
    (result.op = "element_node_index" /\ shape.ORDER >= 2) =>
        LET ORDER == shape.ORDER
            V == mesh.vertex_count
            E == mesh.side_count
            point == EvaluatedPoint
            node_i == result.node_index_in_elt \div (ORDER + 1)
            node_j == result.node_index_in_elt % (ORDER + 1)
        IN /\ point[1] = "vertex" => result.value \in 0..(V - 1)
           /\ point[1] = "edge" =>
                 /\ result.value \in V..(V + E * (ORDER - 1) - 1)
                 /\ result.value - V - (ORDER - 1) * EdgeBetween(point[2], point[3])
                        \in 0..(ORDER - 2)
           /\ point[1] = "cell" =>
                 /\ result.value = V + E * (ORDER - 1)
                        + result.element_index * (ORDER - 1) * (ORDER - 1)
                        + (node_i - 1) * (ORDER - 1) + (node_j - 1)
                 /\ result.value \in (V + E * (ORDER - 1))..(node_count(mesh, shape) - 1)
           /\ shape.kind = "serendipity" => result.value < V + E * (ORDER - 1)

\* the last interior node of the last quad of an order 3 bipolynomial space has
\* been indexed: it is the last node of the space
C12_Witness ==
    /\ Evaluated("bipolynomial")
    /\ shape.ORDER = 3
    /\ EvaluatedPoint = <<"cell", 1, 2, 2>>
    /\ result.value = node_count(mesh, shape) - 1

====
